---- MODULE Spec2Model ----
(***************************************************************************)
(* PteroDeploy: the deployment orchestration of the backend.               *)
(*                                                                         *)
(*   routes/deployments.ts   POST / (create), DELETE /:id                  *)
(*   socket/handlers.ts      the 'start-deployment' handler                *)
(*   utils/deployment.ts     createDeploymentPlan, simulateDeployment      *)
(*                                                                         *)
(* The Prisma tables Deployment and DeploymentStep are functions keyed by  *)
(* record id.  Every async handler is a task whose position (pc) moves at  *)
(* each await: a store operation is one atomic action, the synchronous     *)
(* code that follows it (the emits) is the next one.                       *)
(***************************************************************************)
EXTENDS Integers, Sequences, FiniteSets, TLC

(* ------------------------------ bounds -------------------------------- *)
\* POST / requests ever received
MaxDeployments == 1
\* 'start-deployment' signals ever received
MaxStarts == 2
\* steps of a plan that are created and run (a prefix of the plan)
MaxPlanLen == 2
\* DELETE requests ever received
MaxDeletes == 1

(* ------------------------------ inputs -------------------------------- *)
Users == {"u1", "u2"}
Sockets == {"s1", "s2", "s3"}
\* io.use: the user id decoded from the token of the socket's handshake
socketUserId == [s \in Sockets |-> IF s = "s3" THEN "u2" ELSE "u1"]

\* req.body.modpackUrl: "undefined" is a body that carries no modpackUrl
Urls == {"undefined", "", "https://example.com/packs/small.zip",
         "https://example.com/packs/tekkit.zip"}
\* the descriptors createDeploymentPlan is called with
Descriptors == (Urls \ {"undefined"}) \cup
  {"https://www.curseforge.com/minecraft/modpacks/rlcraft",
   "https://example.com/packs/all-the-mods-9.zip",
   "https://example.com/packs/industrialcraft-2.zip",
   "https://example.com/packs/Tekkit-Classic.zip",
   "https://example.com/packs/tekkit-industrialcraft.zip",
   "https://example.com/packs/rlcraft-tekkit.zip",
   "tekkit"}

\* String.prototype.includes (case-sensitive) on the descriptors above
includes(url, kw) ==
  <<url, kw>> \in
    {<<"https://example.com/packs/tekkit.zip", "tekkit">>,
     <<"https://www.curseforge.com/minecraft/modpacks/rlcraft", "rlcraft">>,
     <<"https://example.com/packs/all-the-mods-9.zip", "all-the-mods">>,
     <<"https://example.com/packs/industrialcraft-2.zip", "industrialcraft">>,
     <<"https://example.com/packs/tekkit-industrialcraft.zip", "tekkit">>,
     <<"https://example.com/packs/tekkit-industrialcraft.zip", "industrialcraft">>,
     <<"https://example.com/packs/rlcraft-tekkit.zip", "rlcraft">>,
     <<"https://example.com/packs/rlcraft-tekkit.zip", "tekkit">>,
     <<"tekkit", "tekkit">>}

\* io.on('connection'): the rooms the socket joins, socket.join(`user:${userId}`)
roomsAll(s) == Users
rooms(s) == {socketUserId[s]}

DeploymentIds == 1..MaxDeployments

\* deployments in the store when runs of distinct deployments are compared
MaxRunDeployments == 2
RunIds == 1..MaxRunDeployments
EventNames == {"deployment-status", "step-update", "deployment-complete"}

(* --------------------------- plan builder ----------------------------- *)
PlanEntry(n, d, e) == [name |-> n, description |-> d, estimatedDuration |-> e]

\* Array.prototype.splice(at, 0, x), at counted from 0
spliceReplace(s, at, x) == SubSeq(s, 1, at) \o <<x>> \o SubSeq(s, at + 2, Len(s))
splice(s, at, x) == SubSeq(s, 1, at) \o <<x>> \o SubSeq(s, at + 1, Len(s))

createDeploymentPlan(modpackUrl) ==
  LET isLarge == includes(modpackUrl, "rlcraft") \/ includes(modpackUrl, "all-the-mods")
      isTech  == includes(modpackUrl, "tekkit") \/ includes(modpackUrl, "industrialcraft")
      basePlan == <<
        PlanEntry("Validate URL",
                  "Checking modpack URL and extracting metadata", 3),
        PlanEntry("Download Modpack",
                  "Downloading modpack files and dependencies",
                  IF isLarge THEN 45 ELSE 20),
        PlanEntry("Extract Files",
                  "Extracting modpack archive and organizing files", 10),
        PlanEntry("Install Forge/Fabric",
                  "Setting up mod loader and dependencies", 15),
        PlanEntry("Configure Server",
                  "Applying server configurations and settings", 8),
        PlanEntry("Allocate Resources",
                  "Setting up server resources and memory allocation", 5),
        PlanEntry("Start Server",
                  "Starting Minecraft server and running initial checks", 20) >>
  IN  IF isTech
      THEN splice(basePlan, 4,
                  PlanEntry("Install Tech Mods",
                            "Installing and configuring technical mod dependencies", 12))
      ELSE basePlan

\* the prefix of the plan the model creates and runs
PlanPrefix(plan) ==
  SubSeq(plan, 1, IF Len(plan) < MaxPlanLen THEN Len(plan) ELSE MaxPlanLen)

(* ------------------------------- state -------------------------------- *)
VARIABLES
  deployment,   \* table Deployment: id -> record (modpackName, modpackUrl and
                \* startedAt are set by create and never written again)
  deploymentStep, \* table DeploymentStep: <<deploymentId, order>> -> record
  nextId,       \* the next fresh deployment id
  creating,     \* POST / requests, in arrival order: [pc, id, steps, todo, res]
  deleting,     \* DELETE /:id requests, in arrival order: [userId, id, pc, res]
  tasks,        \* 'start-deployment' handler activations, in arrival order
  emitted,      \* io.to(room).emit: deployment id -> event name -> count
  latest,       \* deployment id -> event name -> the last event emitted
  socketErrors, \* socket.emit('deployment-error'): socket -> sequence of errors
  reading,      \* GET requests, in arrival order: [userId, kind, pc, where, res]
  planned,      \* the calls of createDeploymentPlan so far: [modpackUrl, plan]
  cancelSignals, \* the deployments a cancellation was signalled for while RUNNING
  user,         \* table User: id -> [username, password, role, status]
  tokens,       \* the tokens jwt.sign has handed out: [userId, username, role]
  authRequests, \* register, login, approve and reject requests, in arrival order
  clock,        \* Date.now() and the durations one timed run computes from it
  client        \* the deployment store of one connected browser session

\* the tables and request records of the deployment handlers and the runs
deployVars == << deployment, deploymentStep, nextId, creating, deleting, tasks,
                 emitted, latest, socketErrors >>

\* the table and request records of the auth and admin handlers
authVars == << user, tokens, authRequests >>

\* the wall clock of the timed run and the store of the browser session
observerVars == << clock, client >>

\* what the handlers of deployments and the run tasks never touch
other == << reading, planned, cancelSignals, authVars, observerVars >>

vars == << deployment, deploymentStep, nextId, creating, deleting, tasks,
           emitted, latest, socketErrors, reading, planned, cancelSignals,
           user, tokens, authRequests, clock, client >>

NoEvent == [room |-> "", deploymentId |-> 0, order |-> -1, status |-> "NONE"]

\* no timed run: Date.now() is not observed
NoClock == [pc |-> "idle", now |-> 0, startTime |-> 0, branch |-> "null",
            totalDuration |-> -1, persisted |-> -1, sent |-> -1]

\* currentDeployment: null, and no event handled yet
NoClient ==
  [userId |-> "", id |-> 0, status |-> "null", steps |-> << >>,
   applied |-> [d \in DeploymentIds \cup RunIds |-> [e \in EventNames |-> 0]]]

Init ==
  /\ deployment = << >>
  /\ deploymentStep = << >>
  /\ nextId = 1
  /\ creating = << >>
  /\ deleting = << >>
  /\ tasks = << >>
  /\ emitted = [d \in DeploymentIds \cup RunIds |-> [e \in EventNames |-> 0]]
  /\ latest = [d \in DeploymentIds \cup RunIds |-> [e \in EventNames |-> NoEvent]]
  /\ socketErrors = [s \in Sockets |-> << >>]
  /\ reading = << >>
  /\ planned = << >>
  /\ cancelSignals = {}
  /\ user = << >>
  /\ tokens = {}
  /\ authRequests = << >>
  /\ clock = NoClock
  /\ client = NoClient

(* --------------------------- store helpers ---------------------------- *)
\* the orders in S, ascending (orderBy: {order: 'asc'})
RECURSIVE SortedOrders(_)
SortedOrders(S) ==
  IF S = {} THEN << >>
  ELSE LET m == CHOOSE x \in S : \A y \in S : x <= y
       IN  <<m>> \o SortedOrders(S \ {m})

\* the orders of the steps of deployment id in the store (include: steps)
stepsOf(id) == SortedOrders({k[2] : k \in {k \in DOMAIN deploymentStep : k[1] = id}})

\* prisma.deployment.findFirst({where: {id, userId}}) finds a record
findFirstNoOwner(id, userId) == id \in DOMAIN deployment
findFirst(id, userId) ==
  /\ id \in DOMAIN deployment
  /\ deployment[id].userId = userId

\* the rows of table t without the row of key k
without(t, k) == [x \in DOMAIN t \ {k} |-> t[x]]

(* ------------------- POST /api/deployments (create) ------------------- *)
\* !modpackUrl
missingOnlyUndefined(modpackUrl) == modpackUrl = "undefined"
missing(modpackUrl) == modpackUrl \in {"undefined", ""}

\* the handler up to its first store write: validation (400 on an empty
\* descriptor), deployment.create, and the plan whose steps it will create
CreateDeployment(userId, modpackUrl) ==
  /\ IF missing(modpackUrl)
     THEN /\ creating' = Append(creating,
               [pc |-> "done", id |-> 0, steps |-> << >>, todo |-> {},
                res |-> [status |-> 400, steps |-> << >>]])
          /\ UNCHANGED << deployment, nextId >>
     ELSE /\ deployment' = deployment @@
               (nextId :> [userId |-> userId, status |-> "PENDING",
                           completedAt |-> FALSE, duration |-> FALSE,
                           errorMsg |-> "null"])
          /\ creating' = Append(creating,
               [pc |-> "steps", id |-> nextId,
                steps |-> PlanPrefix(createDeploymentPlan(modpackUrl)),
                todo |-> 0..(Len(PlanPrefix(createDeploymentPlan(modpackUrl))) - 1),
                res |-> [status |-> 0, steps |-> << >>]])
          /\ nextId' = nextId + 1
  /\ UNCHANGED << deploymentStep, deleting, tasks, emitted, latest, socketErrors >>
  /\ UNCHANGED other

\* one deploymentStep.create of the Promise.all: the creates complete in any
\* order, and each fails on the foreign key once the deployment is gone (500)
CreateStep(c, index) ==
  /\ c \in 1..Len(creating)
  /\ creating[c].pc = "steps"
  /\ index \in creating[c].todo
  /\ IF creating[c].id \in DOMAIN deployment
     THEN /\ deploymentStep' = deploymentStep @@
               (<<creating[c].id, index>> :>
                  [deploymentId |-> creating[c].id,
                   name |-> creating[c].steps[index + 1].name,
                   description |-> creating[c].steps[index + 1].description,
                   status |-> "PENDING", order |-> index,
                   startedAt |-> FALSE, completedAt |-> FALSE,
                   logs |-> "null"])
          /\ creating' = [creating EXCEPT ![c].todo = @ \ {index},
                            ![c].pc = IF creating[c].todo = {index}
                                      THEN "fetch" ELSE "steps"]
     ELSE /\ creating' = [creating EXCEPT ![c].todo = {}, ![c].pc = "done",
                            ![c].res = [status |-> 500, steps |-> << >>]]
          /\ UNCHANGED deploymentStep
  /\ UNCHANGED << deployment, nextId, deleting, tasks, emitted, latest,
                  socketErrors >>
  /\ UNCHANGED other

\* deployment.findUnique with its steps, and the 201 response
CreateRespond(c) ==
  /\ c \in 1..Len(creating)
  /\ creating[c].pc = "fetch"
  /\ creating' = [creating EXCEPT ![c].pc = "done",
        ![c].res =
          [status |-> 201,
           deployment |-> IF creating[c].id \in DOMAIN deployment
                          THEN deployment[creating[c].id].status ELSE "null",
           steps |-> [k \in 1..Len(stepsOf(creating[c].id)) |->
                        [order |-> stepsOf(creating[c].id)[k],
                         status |-> deploymentStep[<<creating[c].id,
                                       stepsOf(creating[c].id)[k]>>].status]]]]
  /\ UNCHANGED << deployment, deploymentStep, nextId, deleting, tasks,
                  emitted, latest, socketErrors >>
  /\ UNCHANGED other

(* ------------------- DELETE /api/deployments/:id ---------------------- *)
\* deployment.findFirst scoped to the caller; 404 when it finds nothing
DeleteFind(userId, id) ==
  /\ deleting' = Append(deleting,
       [userId |-> userId, id |-> id,
        pc |-> IF findFirst(id, userId) THEN "delete" ELSE "done",
        res |-> IF findFirst(id, userId) THEN 0 ELSE 404])
  /\ UNCHANGED << deployment, deploymentStep, nextId, creating, tasks,
                  emitted, latest, socketErrors >>
  /\ UNCHANGED other

\* deployment.delete: it throws (500) while a step refers to the deployment
\* (DeploymentStep_deploymentId_fkey, ON DELETE RESTRICT) and when the
\* record is already gone
DeleteExec(k) ==
  /\ k \in 1..Len(deleting)
  /\ deleting[k].pc = "delete"
  /\ IF deleting[k].id \in DOMAIN deployment /\ stepsOf(deleting[k].id) = << >>
     THEN /\ deployment' = without(deployment, deleting[k].id)
          /\ deleting' = [deleting EXCEPT ![k].pc = "done", ![k].res = 200]
     ELSE /\ deleting' = [deleting EXCEPT ![k].pc = "done", ![k].res = 500]
          /\ UNCHANGED deployment
  /\ UNCHANGED << deploymentStep, nextId, creating, tasks, emitted, latest,
                  socketErrors >>
  /\ UNCHANGED other

(* --------------- socket 'start-deployment' handler -------------------- *)
\* the deployment object findFirst hands to the handler (include: steps,
\* orderBy order asc), as read at this instant
snapshot(id) ==
  [k \in 1..Len(stepsOf(id)) |->
     [order |-> stepsOf(id)[k],
      name |-> deploymentStep[<<id, stepsOf(id)[k]>>].name]]

\* the handler up to the first store write of simulateDeployment: the
\* ownership lookup, and the 'Deployment not found' error when it is empty
StartDeployment(socket, deploymentId) ==
  /\ IF findFirst(deploymentId, socketUserId[socket])
     THEN /\ tasks' = Append(tasks,
               [socket |-> socket, userId |-> socketUserId[socket],
                deploymentId |-> deploymentId,
                status |-> deployment[deploymentId].status,
                steps |-> snapshot(deploymentId),
                pc |-> "setRunning", failAtStep |-> -1, i |-> 0])
          /\ UNCHANGED socketErrors
     ELSE /\ tasks' = Append(tasks,
               [socket |-> socket, userId |-> socketUserId[socket],
                deploymentId |-> deploymentId, status |-> "null",
                steps |-> << >>,
                pc |-> "rejected", failAtStep |-> -1, i |-> 0])
          /\ socketErrors' = [socketErrors EXCEPT ![socket] =
                                Append(@, "Deployment not found")]
  /\ UNCHANGED << deployment, deploymentStep, nextId, creating, deleting,
                  emitted, latest >>
  /\ UNCHANGED other

(* ------------------------ simulateDeployment -------------------------- *)
Event(t, order, status) ==
  [room |-> t.userId, deploymentId |-> t.deploymentId, order |-> order,
   status |-> status]

\* io.to(`user:${userId}`).emit(name, ...)
Emit(t, name, order, status) ==
  /\ emitted' = [emitted EXCEPT ![t.deploymentId][name] = @ + 1]
  /\ latest' = [latest EXCEPT ![t.deploymentId][name] = Event(t, order, status)]

\* the values of failAtStep: -1, or Math.floor(Math.random() * n)
FailChoices(n) == {-1} \cup (IF n = 0 THEN {0} ELSE 0..(n - 1))

\* the key of the step the loop is at
stepIdFirst(t) == <<1, t.steps[t.i + 1].order>>
stepId(t) == <<t.deploymentId, t.steps[t.i + 1].order>>

\* deployment.update({status: 'RUNNING'}); throws when the record is gone
SetRunningNoStatus(r) ==
  /\ r \in 1..Len(tasks)
  /\ tasks[r].pc = "setRunning"
  /\ tasks' = [tasks EXCEPT ![r].pc = "emitStatus"]
  /\ UNCHANGED << deployment, deploymentStep, nextId, creating, deleting,
                  emitted, latest, socketErrors >>
  /\ UNCHANGED other
SetRunning(r) ==
  /\ r \in 1..Len(tasks)
  /\ tasks[r].pc = "setRunning"
  /\ IF tasks[r].deploymentId \in DOMAIN deployment
     THEN /\ deployment' = [deployment EXCEPT ![tasks[r].deploymentId].status = "RUNNING"]
          /\ tasks' = [tasks EXCEPT ![r].pc = "emitStatus"]
     ELSE /\ tasks' = [tasks EXCEPT ![r].pc = "catch"]
          /\ UNCHANGED deployment
  /\ UNCHANGED << deploymentStep, nextId, creating, deleting, emitted, latest,
                  socketErrors >>
  /\ UNCHANGED other

\* emit deployment-status, draw failAtStep, enter the loop
EmitStatus(r) ==
  /\ r \in 1..Len(tasks)
  /\ tasks[r].pc = "emitStatus"
  /\ Emit(tasks[r], "deployment-status", -1, "RUNNING")
  /\ \E f \in FailChoices(Len(tasks[r].steps)) :
       tasks' = [tasks EXCEPT ![r].failAtStep = f, ![r].i = 0,
                   ![r].pc = IF 0 < Len(tasks[r].steps)
                             THEN "stepRunning" ELSE "setCompleted"]
  /\ UNCHANGED << deployment, deploymentStep, nextId, creating, deleting,
                  socketErrors >>
  /\ UNCHANGED other

\* deploymentStep.update({status: 'RUNNING', startedAt})
StepRunning(r) ==
  /\ r \in 1..Len(tasks)
  /\ tasks[r].pc = "stepRunning"
  /\ IF stepId(tasks[r]) \in DOMAIN deploymentStep
     THEN /\ deploymentStep' = [deploymentStep EXCEPT
                 ![stepId(tasks[r])].status = "RUNNING",
                 ![stepId(tasks[r])].startedAt = TRUE]
          /\ tasks' = [tasks EXCEPT ![r].pc = "emitStepRunning"]
     ELSE /\ tasks' = [tasks EXCEPT ![r].pc = "catch"]
          /\ UNCHANGED deploymentStep
  /\ UNCHANGED << deployment, nextId, creating, deleting, emitted, latest,
                  socketErrors >>
  /\ UNCHANGED other

\* emit step-update RUNNING and start the timer of the step
EmitStepRunning(r) ==
  /\ r \in 1..Len(tasks)
  /\ tasks[r].pc = "emitStepRunning"
  /\ Emit(tasks[r], "step-update", tasks[r].steps[tasks[r].i + 1].order, "RUNNING")
  /\ tasks' = [tasks EXCEPT ![r].pc = "work"]
  /\ UNCHANGED << deployment, deploymentStep, nextId, creating, deleting,
                  socketErrors >>
  /\ UNCHANGED other

\* the step this pass of the loop fails at
shouldFailEveryPass(t) == t.failAtStep # -1
shouldFailHere(t) == t.i = t.failAtStep

\* the timer fires; deploymentStep.update to FAILED or to COMPLETED
Work(r) ==
  /\ r \in 1..Len(tasks)
  /\ tasks[r].pc = "work"
  /\ IF stepId(tasks[r]) \in DOMAIN deploymentStep
     THEN IF shouldFailHere(tasks[r])
          THEN /\ deploymentStep' = [deploymentStep EXCEPT
                      ![stepId(tasks[r])].status = "FAILED",
                      ![stepId(tasks[r])].completedAt = TRUE,
                      ![stepId(tasks[r])].logs = "error"]
               /\ tasks' = [tasks EXCEPT ![r].pc = "setFailed"]
          ELSE /\ deploymentStep' = [deploymentStep EXCEPT
                      ![stepId(tasks[r])].status = "COMPLETED",
                      ![stepId(tasks[r])].completedAt = TRUE,
                      ![stepId(tasks[r])].logs = "success"]
               /\ tasks' = [tasks EXCEPT ![r].pc = "emitStepCompleted"]
     ELSE /\ tasks' = [tasks EXCEPT ![r].pc = "catch"]
          /\ UNCHANGED deploymentStep
  /\ UNCHANGED << deployment, nextId, creating, deleting, emitted, latest,
                  socketErrors >>
  /\ UNCHANGED other

\* deployment.update({status: 'FAILED', completedAt, duration, errorMsg})
SetFailedThrows(r) ==
  /\ r \in 1..Len(tasks)
  /\ tasks[r].pc = "setFailed"
  /\ tasks' = [tasks EXCEPT ![r].pc = "catch"]
  /\ UNCHANGED << deployment, deploymentStep, nextId, creating, deleting,
                  emitted, latest, socketErrors >>
  /\ UNCHANGED other
SetFailed(r) ==
  /\ r \in 1..Len(tasks)
  /\ tasks[r].pc = "setFailed"
  /\ IF tasks[r].deploymentId \in DOMAIN deployment
     THEN /\ deployment' = [deployment EXCEPT
                 ![tasks[r].deploymentId].status = "FAILED",
                 ![tasks[r].deploymentId].completedAt = TRUE,
                 ![tasks[r].deploymentId].duration = TRUE,
                 ![tasks[r].deploymentId].errorMsg = tasks[r].steps[tasks[r].i + 1].name]
          /\ tasks' = [tasks EXCEPT ![r].pc = "emitFailed"]
     ELSE /\ tasks' = [tasks EXCEPT ![r].pc = "catch"]
          /\ UNCHANGED deployment
  /\ UNCHANGED << deploymentStep, nextId, creating, deleting, emitted, latest,
                  socketErrors >>
  /\ UNCHANGED other

\* emit step-update FAILED, then deployment-complete FAILED; return
EmitFailed(r) ==
  /\ r \in 1..Len(tasks)
  /\ tasks[r].pc = "emitFailed"
  /\ emitted' = [emitted EXCEPT
        ![tasks[r].deploymentId]["step-update"] = @ + 1,
        ![tasks[r].deploymentId]["deployment-complete"] = @ + 1]
  /\ latest' = [latest EXCEPT
        ![tasks[r].deploymentId]["step-update"] =
            Event(tasks[r], tasks[r].steps[tasks[r].i + 1].order, "FAILED"),
        ![tasks[r].deploymentId]["deployment-complete"] =
            Event(tasks[r], -1, "FAILED")]
  /\ tasks' = [tasks EXCEPT ![r].pc = "return"]
  /\ UNCHANGED << deployment, deploymentStep, nextId, creating, deleting,
                  socketErrors >>
  /\ UNCHANGED other

\* emit step-update COMPLETED; i++ and the loop test
EmitStepCompleted(r) ==
  /\ r \in 1..Len(tasks)
  /\ tasks[r].pc = "emitStepCompleted"
  /\ Emit(tasks[r], "step-update", tasks[r].steps[tasks[r].i + 1].order, "COMPLETED")
  /\ tasks' = [tasks EXCEPT ![r].i = @ + 1,
                 ![r].pc = IF tasks[r].i + 1 < Len(tasks[r].steps)
                           THEN "stepRunning" ELSE "setCompleted"]
  /\ UNCHANGED << deployment, deploymentStep, nextId, creating, deleting,
                  socketErrors >>
  /\ UNCHANGED other

\* deployment.update({status: 'COMPLETED', completedAt, duration})
SetCompletedNoStatus(r) ==
  /\ r \in 1..Len(tasks)
  /\ tasks[r].pc = "setCompleted"
  /\ deployment' = [deployment EXCEPT
         ![tasks[r].deploymentId].completedAt = TRUE,
         ![tasks[r].deploymentId].duration = TRUE]
  /\ tasks' = [tasks EXCEPT ![r].pc = "emitCompleted"]
  /\ UNCHANGED << deploymentStep, nextId, creating, deleting, emitted, latest,
                  socketErrors >>
  /\ UNCHANGED other
SetCompleted(r) ==
  /\ r \in 1..Len(tasks)
  /\ tasks[r].pc = "setCompleted"
  /\ IF tasks[r].deploymentId \in DOMAIN deployment
     THEN /\ deployment' = [deployment EXCEPT
                 ![tasks[r].deploymentId].status = "COMPLETED",
                 ![tasks[r].deploymentId].completedAt = TRUE,
                 ![tasks[r].deploymentId].duration = TRUE]
          /\ tasks' = [tasks EXCEPT ![r].pc = "emitCompleted"]
     ELSE /\ tasks' = [tasks EXCEPT ![r].pc = "catch"]
          /\ UNCHANGED deployment
  /\ UNCHANGED << deploymentStep, nextId, creating, deleting, emitted, latest,
                  socketErrors >>
  /\ UNCHANGED other

\* emit deployment-complete COMPLETED; return
EmitCompleted(r) ==
  /\ r \in 1..Len(tasks)
  /\ tasks[r].pc = "emitCompleted"
  /\ Emit(tasks[r], "deployment-complete", -1, "COMPLETED")
  /\ tasks' = [tasks EXCEPT ![r].pc = "done"]
  /\ UNCHANGED << deployment, deploymentStep, nextId, creating, deleting,
                  socketErrors >>
  /\ UNCHANGED other

\* the handler's catch: a store operation of the run threw
Catch(r) ==
  /\ r \in 1..Len(tasks)
  /\ tasks[r].pc = "catch"
  /\ socketErrors' = [socketErrors EXCEPT ![tasks[r].socket] =
                        Append(@, "Failed to start deployment")]
  /\ tasks' = [tasks EXCEPT ![r].pc = "caught"]
  /\ UNCHANGED << deployment, deploymentStep, nextId, creating, deleting,
                  emitted, latest >>
  /\ UNCHANGED other

\* one step of the run of handler activation r
Run(r) ==
  \/ SetRunning(r) \/ EmitStatus(r) \/ StepRunning(r) \/ EmitStepRunning(r)
  \/ Work(r) \/ SetFailed(r) \/ EmitFailed(r) \/ EmitStepCompleted(r)
  \/ SetCompleted(r) \/ EmitCompleted(r) \/ Catch(r)

(* ------ GET /api/deployments and GET /api/deployments/:id ------------- *)
\* deployments in the store when the reads begin
MaxReadDeployments == 2
\* GET requests ever received
MaxReads == 1

ReadIds == 1..MaxReadDeployments
Statuses == {"PENDING", "RUNNING", "COMPLETED", "FAILED"}

\* the modpackName of a stored deployment, and String contains on them
ModpackNames == {"small.zip", "tekkit.zip"}
contains(name, term) == term = "zip" \/ (term = "small" /\ name = "small.zip")

\* req.query: "undefined" is a parameter the request does not carry
StatusParams == {"undefined", "", "all"} \cup Statuses
SearchParams == {"undefined", "small", "zip", "pack"}
LimitParams == {"undefined", "0", "1", "-1"}
OffsetParams == {"undefined", "1"}

\* Number(x) of the parameters above
Number(x) == CASE x = "0" -> 0 [] x = "1" -> 1 [] x = "-1" -> -1

\* const { status, search, limit = 20, offset = 0 } = req.query
limitOf(limit) == IF limit = "undefined" THEN 20 ELSE Number(limit)
offsetOf(offset) == IF offset = "undefined" THEN 0 ELSE Number(offset)

\* the where clause of the list: the caller, and the filters that were given
whereClauseAnyUser(userId, status, search) ==
  [userId |-> "undefined",
   status |-> IF status \notin {"undefined", "", "all"} THEN status ELSE "undefined",
   modpackName |-> IF search \notin {"undefined", ""} THEN search ELSE "undefined"]
whereClause(userId, status, search) ==
  [userId |-> userId,
   status |-> IF status \notin {"undefined", "", "all"} THEN status ELSE "undefined",
   modpackName |-> IF search \notin {"undefined", ""} THEN search ELSE "undefined"]

\* deployment id satisfies the where clause (an undefined field filters nothing)
matches(id, where) ==
  /\ where.userId # "undefined" => deployment[id].userId = where.userId
  /\ where.status # "undefined" => deployment[id].status = where.status
  /\ where.modpackName # "undefined"
       => contains(deployment[id].modpackName, where.modpackName)

\* the ids in S, descending (orderBy: {startedAt: 'desc'}: ids are handed out
\* in the order of creation)
RECURSIVE SortedDesc(_)
SortedDesc(S) ==
  IF S = {} THEN << >>
  ELSE LET m == CHOOSE x \in S : \A y \in S : x >= y
       IN  <<m>> \o SortedDesc(S \ {m})

\* prisma.deployment.findMany({where, orderBy, take, skip}); a negative take
\* counts from the end of the list
findMany(where, take, skip) ==
  LET all == SortedDesc({id \in DOMAIN deployment : matches(id, where)})
      n == Len(all) - skip
  IN  IF take >= 0
      THEN SubSeq(all, skip + 1, IF skip + take < Len(all) THEN skip + take ELSE Len(all))
      ELSE SubSeq(all, IF n + take + 1 > 1 THEN n + take + 1 ELSE 1, n)

\* prisma.deployment.count({where})
count(where) == Cardinality({id \in DOMAIN deployment : matches(id, where)})

\* GET /: the where clause and findMany
ListFind(userId, status, search, limit, offset) ==
  /\ reading' = Append(reading,
       [userId |-> userId, kind |-> "list", pc |-> "count",
        where |-> whereClause(userId, status, search),
        res |-> [status |-> 0,
                 deployments |-> findMany(whereClause(userId, status, search),
                                          limitOf(limit), offsetOf(offset))]])
  /\ UNCHANGED << deployVars, planned, cancelSignals, authVars, observerVars >>

\* GET /: count, and res.json({deployments, total})
ListCount(g) ==
  /\ g \in 1..Len(reading)
  /\ reading[g].pc = "count"
  /\ reading' = [reading EXCEPT ![g].pc = "done",
                   ![g].res = [status |-> 200,
                               deployments |-> reading[g].res.deployments,
                               total |-> count(reading[g].where)]]
  /\ UNCHANGED << deployVars, planned, cancelSignals, authVars, observerVars >>

\* GET /:id: findFirst scoped to the caller; 404 when it finds nothing
GetById(userId, id) ==
  /\ reading' = Append(reading,
       [userId |-> userId, kind |-> "get", pc |-> "done",
        where |-> [id |-> id, userId |-> userId],
        res |-> IF findFirst(id, userId)
                THEN [status |-> 200, deployment |-> id]
                ELSE [status |-> 404]])
  /\ UNCHANGED << deployVars, planned, cancelSignals, authVars, observerVars >>

(* --------------------- calls of createDeploymentPlan ------------------ *)
\* calls of createDeploymentPlan ever made
MaxPlanCalls == 3

\* one call: the array the function returns, built anew by every call
PlanCallSharedBase(modpackUrl) ==
  /\ planned' = Append(planned,
       [modpackUrl |-> modpackUrl,
        plan |-> LET base == IF planned = << >> THEN createDeploymentPlan("")
                             ELSE planned[Len(planned)].plan
                 IN  IF includes(modpackUrl, "tekkit")
                        \/ includes(modpackUrl, "industrialcraft")
                     THEN splice(base, 4, createDeploymentPlan("tekkit")[5])
                     ELSE base])
  /\ UNCHANGED << deployVars, reading, cancelSignals, authVars, observerVars >>
PlanCall(modpackUrl) ==
  /\ planned' = Append(planned,
       [modpackUrl |-> modpackUrl, plan |-> createDeploymentPlan(modpackUrl)])
  /\ UNCHANGED << deployVars, reading, cancelSignals, authVars, observerVars >>

(* --------------------------- specification ---------------------------- *)
\* every operation, each kind of request within its bound
Next ==
  \/ /\ Len(creating) < MaxDeployments
     /\ \E u \in Users, url \in Urls : CreateDeployment(u, url)
  \/ \E c \in 1..MaxDeployments, k \in 0..(MaxPlanLen - 1) : CreateStep(c, k)
  \/ \E c \in 1..MaxDeployments : CreateRespond(c)
  \/ /\ Len(deleting) < MaxDeletes
     /\ \E u \in Users, d \in DeploymentIds : DeleteFind(u, d)
  \/ \E k \in 1..MaxDeletes : DeleteExec(k)
  \/ /\ Len(tasks) < MaxStarts
     /\ \E s \in Sockets, d \in DeploymentIds : StartDeployment(s, d)
  \/ \E r \in 1..MaxStarts : Run(r)

Spec == Init /\ [][Next]_vars

(* ------------------- the reads over a populated store ------------------ *)
\* a stored deployment; completedAt and duration as the run leaves them
Stored(userId, modpackName, status) ==
  [userId |-> userId, status |-> status,
   completedAt |-> status \in {"COMPLETED", "FAILED"},
   duration |-> status \in {"COMPLETED", "FAILED"},
   errorMsg |-> "null", modpackName |-> modpackName]

\* the store holds up to MaxReadDeployments deployments of any owner, name
\* and status, each with its first step or (create still in flight) with none
InitRead ==
  /\ \E n \in 0..MaxReadDeployments :
       /\ deployment \in [1..n -> {Stored(u, m, st) :
                                     u \in Users, m \in ModpackNames, st \in Statuses}]
       /\ nextId = n + 1
  /\ \E S \in SUBSET (DOMAIN deployment) :
       deploymentStep = [k \in {<<d, 0>> : d \in S} |->
                           [deploymentId |-> k[1], name |-> "Validate URL",
                            description |-> "Checking modpack URL and extracting metadata",
                            status |-> "PENDING", order |-> 0, startedAt |-> FALSE,
                            completedAt |-> FALSE, logs |-> "null"]]
  /\ creating = << >>
  /\ deleting = << >>
  /\ tasks = << >>
  /\ emitted = [d \in DeploymentIds \cup RunIds |-> [e \in EventNames |-> 0]]
  /\ latest = [d \in DeploymentIds \cup RunIds |-> [e \in EventNames |-> NoEvent]]
  /\ socketErrors = [s \in Sockets |-> << >>]
  /\ reading = << >>
  /\ planned = << >>
  /\ cancelSignals = {}
  /\ user = << >>
  /\ tokens = {}
  /\ authRequests = << >>
  /\ clock = NoClock
  /\ client = NoClient

\* GET / , GET /:id and DELETE /:id requests of any caller
NextRead ==
  \/ /\ Len(reading) < MaxReads
     /\ \E u \in Users, st \in StatusParams, se \in SearchParams,
           l \in LimitParams, o \in OffsetParams : ListFind(u, st, se, l, o)
  \/ \E g \in 1..MaxReads : ListCount(g)
  \/ /\ Len(reading) < MaxReads
     /\ \E u \in Users, id \in 1..(MaxReadDeployments + 1) : GetById(u, id)
  \/ /\ Len(deleting) < MaxDeletes
     /\ \E u \in Users, d \in ReadIds : DeleteFind(u, d)
  \/ \E k \in 1..MaxDeletes : DeleteExec(k)

SpecRead == InitRead /\ [][NextRead]_vars

(* ------------------------ the plan builder alone ---------------------- *)
\* createDeploymentPlan called with any descriptor, time after time
NextPlan ==
  /\ Len(planned) < MaxPlanCalls
  /\ \E url \in Descriptors : PlanCall(url)

SpecPlan == Init /\ [][NextPlan]_vars

(* ------------- runs under the scheduling of the event loop ------------ *)
\* create and start requests and the runs they begin; no request removes a
\* record, so every store operation of a run succeeds
NextLive ==
  \/ /\ Len(creating) < MaxDeployments
     /\ \E u \in Users, url \in Urls : CreateDeployment(u, url)
  \/ \E c \in 1..MaxDeployments, k \in 0..(MaxPlanLen - 1) : CreateStep(c, k)
  \/ \E c \in 1..MaxDeployments : CreateRespond(c)
  \/ /\ Len(tasks) < MaxStarts
     /\ \E s \in Sockets, d \in DeploymentIds : StartDeployment(s, d)
  \/ \E r \in 1..MaxStarts :
       \/ SetRunning(r) \/ EmitStatus(r) \/ StepRunning(r) \/ EmitStepRunning(r)
       \/ Work(r) \/ SetFailed(r) \/ EmitFailed(r) \/ EmitStepCompleted(r)
       \/ SetCompleted(r) \/ EmitCompleted(r)

\* the event loop resumes every pending await of a run: a resolved store
\* promise, and the timer of a step when it expires
SpecLive ==
  Init /\ [][NextLive]_vars /\ \A r \in 1..MaxStarts : WF_vars(Run(r))

(* ------------------- runs of distinct deployments --------------------- *)
\* the store after MaxRunDeployments creates with a plain descriptor have
\* been answered: every deployment PENDING with all the steps of its plan
InitTwo ==
  LET plan == PlanPrefix(createDeploymentPlan("https://example.com/packs/small.zip"))
  IN  /\ \E owner \in [RunIds -> Users] :
           deployment = [d \in RunIds |->
                           [userId |-> owner[d], status |-> "PENDING",
                            completedAt |-> FALSE, duration |-> FALSE,
                            errorMsg |-> "null"]]
      /\ deploymentStep = [k \in RunIds \X (0..(Len(plan) - 1)) |->
                             [deploymentId |-> k[1], name |-> plan[k[2] + 1].name,
                              description |-> plan[k[2] + 1].description,
                              status |-> "PENDING", order |-> k[2],
                              startedAt |-> FALSE, completedAt |-> FALSE,
                              logs |-> "null"]]
      /\ nextId = MaxRunDeployments + 1
      /\ creating = [c \in RunIds |->
                       [pc |-> "done", id |-> c, steps |-> plan, todo |-> {},
                        res |-> [status |-> 201, deployment |-> "PENDING",
                                 steps |-> [k \in 1..Len(plan) |->
                                              [order |-> k - 1, status |-> "PENDING"]]]]]
      /\ deleting = << >>
      /\ tasks = << >>
      /\ emitted = [d \in DeploymentIds \cup RunIds |-> [e \in EventNames |-> 0]]
      /\ latest = [d \in DeploymentIds \cup RunIds |-> [e \in EventNames |-> NoEvent]]
      /\ socketErrors = [s \in Sockets |-> << >>]
      /\ reading = << >>
      /\ planned = << >>
      /\ cancelSignals = {}
      /\ user = << >>
      /\ tokens = {}
      /\ authRequests = << >>
      /\ clock = NoClock
      /\ client = NoClient

\* start signals for any of the deployments, and the runs they begin
NextTwo ==
  \/ /\ Len(tasks) < MaxStarts
     /\ \E s \in Sockets, d \in RunIds : StartDeployment(s, d)
  \/ \E r \in 1..MaxStarts :
       \/ SetRunning(r) \/ EmitStatus(r) \/ StepRunning(r) \/ EmitStepRunning(r)
       \/ Work(r) \/ SetFailed(r) \/ EmitFailed(r) \/ EmitStepCompleted(r)
       \/ SetCompleted(r) \/ EmitCompleted(r)

SpecTwo == InitTwo /\ [][NextTwo]_vars

(* ---------------- a cancellation signal on the socket ----------------- *)
\* any event other than 'start-deployment' and 'disconnect': the connection
\* registers no listener for it, so the server drops it; the signal is
\* remembered when it names a RUNNING deployment of the caller
CancelSignal(socket, deploymentId) ==
  /\ findFirst(deploymentId, socketUserId[socket])
  /\ deployment[deploymentId].status = "RUNNING"
  /\ cancelSignals' = cancelSignals \cup {deploymentId}
  /\ UNCHANGED << deployVars, reading, planned, authVars, observerVars >>

NextCancel ==
  \/ NextLive
  \/ \E s \in Sockets, d \in DeploymentIds : CancelSignal(s, d)

SpecCancel == Init /\ [][NextCancel]_vars

(* ------------------------------ claims -------------------------------- *)
Terminal == {"COMPLETED", "FAILED", "CANCELLED"}

\* the positions of a task inside simulateDeployment
RunPcs == {"setRunning", "emitStatus", "stepRunning", "emitStepRunning", "work",
           "setFailed", "emitFailed", "emitStepCompleted", "setCompleted",
           "emitCompleted"}

\* the run tasks driving deployment id
driving(id) == {r \in 1..Len(tasks) : tasks[r].deploymentId = id /\ tasks[r].pc \in RunPcs}

\* the caller of start signal (s, d) owns d / does not own the existing d
owned(s, d) == d \in DOMAIN deployment /\ deployment[d].userId = socketUserId[s]
foreign(s, d) == d \in DOMAIN deployment /\ deployment[d].userId # socketUserId[s]

\* the run of task t was handed every step of the plan of its deployment
fullRun(t) ==
  \E c \in 1..Len(creating) :
    creating[c].id = t.deploymentId /\ Len(t.steps) = Len(creating[c].steps)

\* every start signal for deployment id found all the steps of its plan in
\* the store: no run of it began while its steps were still being created
onlyFullRuns(id) ==
  \A r \in 1..Len(tasks) :
    (tasks[r].deploymentId = id /\ tasks[r].pc # "rejected") => fullRun(tasks[r])

\* the activation the last start signal created was rejected
lastRejected == tasks'[Len(tasks')].pc = "rejected"

\* C1: a start-deployment signal for a deployment whose persisted status is
\* not PENDING is rejected with an error to the caller, and the activation it
\* creates changes no persisted field of the deployment or of its steps.
C1_StartOutsidePendingRejected ==
  [][ /\ \A s \in Sockets, d \in DeploymentIds :
           (StartDeployment(s, d) /\ owned(s, d) /\ deployment[d].status # "PENDING")
             => (lastRejected /\ Len(socketErrors'[s]) = Len(socketErrors[s]) + 1)
      /\ \A r \in 1..Len(tasks) :
           (Run(r) /\ tasks[r].status # "PENDING")
             => UNCHANGED << deployment, deploymentStep >> ]_vars

\* C2: at most one run task (one activation of simulateDeployment) is
\* driving a given deployment at any time.
C2_AtMostOneRunTask ==
  \A d \in DeploymentIds : Cardinality(driving(d)) <= 1

\* C3: each deployment has at most one step whose persisted status is
\* RUNNING.
\* Stated for deployments every run of which was handed the full plan.
C3_AtMostOneStepRunning ==
  \A d \in DeploymentIds :
    onlyFullRuns(d) =>
    Cardinality({k \in DOMAIN deploymentStep :
                   k[1] = d /\ deploymentStep[k].status = "RUNNING"}) <= 1

\* C4: once a deployment's persisted status is COMPLETED, FAILED or
\* CANCELLED, no operation changes it.
\* Stated for deployments every run of which was handed the full plan.
C4_TerminalIsFinal ==
  [][ \A d \in DOMAIN deployment :
        (deployment[d].status \in Terminal /\ d \in DOMAIN deployment'
           /\ onlyFullRuns(d))
          => deployment'[d].status = deployment[d].status ]_vars

\* the changes of status a step may make
StepMoves == { <<"PENDING", "RUNNING">>, <<"RUNNING", "COMPLETED">>,
               <<"RUNNING", "FAILED">> }

\* C5: every change of a step's persisted status is PENDING to RUNNING,
\* RUNNING to COMPLETED or RUNNING to FAILED.
\* Stated for deployments every run of which was handed the full plan.
C5_StepTransitions ==
  [][ \A k \in DOMAIN deploymentStep :
        (k \in DOMAIN deploymentStep' /\ onlyFullRuns(k[1])
           /\ deploymentStep'[k].status # deploymentStep[k].status)
          => <<deploymentStep[k].status, deploymentStep'[k].status>> \in StepMoves ]_vars

\* C6: when a run of a deployment with N steps fails at step k, then at the
\* moment the deployment is persisted as FAILED, steps 0..k-1 are COMPLETED,
\* step k is FAILED and steps k+1..N-1 are PENDING.
\* Stated for deployments every run of which was handed the full plan.
C6_PartialFailure ==
  [][ \A r \in 1..Len(tasks) :
        (SetFailed(r) /\ onlyFullRuns(tasks[r].deploymentId)
           /\ tasks[r].deploymentId \in DOMAIN deployment)
          => \A k \in DOMAIN deploymentStep' :
               k[1] = tasks[r].deploymentId
                 => deploymentStep'[k].status =
                      IF k[2] < tasks[r].i THEN "COMPLETED"
                      ELSE IF k[2] = tasks[r].i THEN "FAILED" ELSE "PENDING" ]_vars

\* the run of task t has persisted its failing step as FAILED
hasFailedStep(t) == t.pc \in {"setFailed", "emitFailed", "return"}

\* C7: after a step of a deployment has become FAILED, every step with a
\* larger order index is PENDING, and stays so whatever happens later.
\* Stated for deployments every run of which was handed the full plan.
C7_StepsAfterFailureStayPending ==
  \A r \in 1..Len(tasks) :
    (hasFailedStep(tasks[r]) /\ onlyFullRuns(tasks[r].deploymentId))
      => \A k \in DOMAIN deploymentStep :
           (k[1] = tasks[r].deploymentId /\ k[2] > tasks[r].steps[tasks[r].i + 1].order)
             => deploymentStep[k].status = "PENDING"

\* step-update event next may directly follow step-update event prev
Follows(prev, next) ==
  IF prev.status = "NONE" THEN next.status = "RUNNING"
  ELSE IF prev.status = "RUNNING"
       THEN next.order = prev.order /\ next.status \in {"COMPLETED", "FAILED"}
       ELSE next.order > prev.order /\ next.status = "RUNNING"

\* C8: the step-update events of a deployment come in strict order-index
\* order: RUNNING of step i, then the terminal event of step i, then RUNNING
\* of a later step; no step has two RUNNING or two terminal events.
\* Stated for deployments every run of which was handed the full plan.
C8_StepUpdatesInOrder ==
  [][ \A d \in DeploymentIds :
        (emitted'[d]["step-update"] # emitted[d]["step-update"] /\ onlyFullRuns(d))
          => Follows(latest[d]["step-update"], latest'[d]["step-update"]) ]_vars

\* C9: the deployment-complete event of a deployment is emitted at most
\* once, and exactly once when a run of it has returned normally.
\* Stated for deployments every run of which was handed the full plan.
C9_CompleteExactlyOnce ==
  \A d \in DeploymentIds :
    onlyFullRuns(d) =>
    /\ emitted[d]["deployment-complete"] <= 1
    /\ (\E r \in 1..Len(tasks) :
          tasks[r].deploymentId = d /\ tasks[r].pc \in {"done", "return"})
         => emitted[d]["deployment-complete"] = 1

\* C10: a start-deployment signal from a session whose user is not the
\* owner of the deployment is answered with a deployment-error to that
\* session, starts no run and leaves the deployment and its steps unchanged;
\* the rejected activation never acts again.
C10_ForeignStartRejected ==
  [][ /\ \A s \in Sockets, d \in DeploymentIds :
           (StartDeployment(s, d) /\ foreign(s, d))
             => /\ lastRejected
                /\ socketErrors'[s] = Append(socketErrors[s], "Deployment not found")
                /\ UNCHANGED << deployment, deploymentStep, emitted, latest >>
      /\ \A r \in 1..Len(tasks) :
           tasks[r].pc = "rejected" => tasks'[r] = tasks[r] ]_vars

\* a foreign session's start signal on a PENDING deployment was rejected
C10_Witness ==
  \E r \in 1..Len(tasks) :
    /\ tasks[r].pc = "rejected"
    /\ tasks[r].deploymentId \in DOMAIN deployment
    /\ deployment[tasks[r].deploymentId].userId # tasks[r].userId
    /\ deployment[tasks[r].deploymentId].status = "PENDING"
    /\ socketErrors[tasks[r].socket] = <<"Deployment not found">>

\* the start signals received so far for deployment d
startsOf(d) == {r \in 1..Len(tasks) : tasks[r].deploymentId = d}

receives(s, ev) == ev.room \in rooms(s)

\* C12: every deployment-status, step-update and deployment-complete event
\* about deployment d is emitted to the room of d's owner, and no session of
\* another user receives it.
C12_EventsOnlyToOwner ==
  \A d \in DOMAIN deployment : \A e \in EventNames :
    emitted[d][e] > 0
      => /\ latest[d][e].deploymentId = d
         /\ latest[d][e].room = deployment[d].userId
         /\ \A s \in Sockets :
              socketUserId[s] # deployment[d].userId => ~receives(s, latest[d][e])

\* all three kinds of event have been emitted about a deployment after a
\* session of another user also signalled its start
C12_Witness ==
  \E d \in DOMAIN deployment :
    /\ \A e \in EventNames : emitted[d][e] > 0
    /\ \E r \in startsOf(d) : tasks[r].userId # deployment[d].userId
    /\ \E s \in Sockets : receives(s, latest[d]["deployment-complete"])

\* deployment id is in the store and belongs to another user than userId
ofAnother(id, userId) == id \in DOMAIN deployment /\ deployment[id].userId # userId

\* C13: reads, lists and deletes are scoped to the caller: the list never
\* returns a deployment of another user whatever status, search, limit and
\* offset are given; get-by-id answers 404 for a deployment of another user
\* and returns only the caller's own; delete answers 404 for a deployment of
\* another user and never goes on to delete it.
C13_ReadsScopedToCaller ==
  /\ \A g \in 1..Len(reading) :
       /\ reading[g].kind = "list"
            => \A i \in 1..Len(reading[g].res.deployments) :
                 ~ofAnother(reading[g].res.deployments[i], reading[g].userId)
       /\ reading[g].kind = "get"
            => /\ ofAnother(reading[g].where.id, reading[g].userId)
                    => reading[g].res = [status |-> 404]
               /\ reading[g].res.status = 200
                    => /\ reading[g].res.deployment = reading[g].where.id
                       /\ ~ofAnother(reading[g].where.id, reading[g].userId)
  /\ \A k \in 1..Len(deleting) :
       ofAnother(deleting[k].id, deleting[k].userId)
         => deleting[k].pc = "done" /\ deleting[k].res = 404

\* a list returned some deployment to its caller while the store holds a
\* deployment of another user that passes the same status and name filters
C13_Witness ==
  \E g \in 1..Len(reading) :
    /\ reading[g].kind = "list"
    /\ reading[g].pc = "done"
    /\ Len(reading[g].res.deployments) >= 1
    /\ \E id \in DOMAIN deployment :
         /\ deployment[id].userId # reading[g].userId
         /\ matches(id, [reading[g].where EXCEPT !.userId = "undefined"])

\* the completion fields of deployment record x agree with its status
completionAgrees(x) ==
  IF x.status \in Terminal THEN x.completedAt /\ x.duration
  ELSE ~x.completedAt /\ ~x.duration

\* C14: a deployment's completedAt and duration are both absent while its
\* status is PENDING or RUNNING and both present once it is terminal; they
\* are written together by one update, and an update writes them only while
\* they are absent.
\* Stated for deployments every run of which was handed the full plan.
C14_CompletionFieldsSetOnce ==
  [][ /\ \A d \in DOMAIN deployment' :
           onlyFullRuns(d) => completionAgrees(deployment'[d])
      /\ \A r \in 1..Len(tasks) :
           ((SetFailed(r) \/ SetCompleted(r))
              /\ tasks[r].deploymentId \in DOMAIN deployment
              /\ onlyFullRuns(tasks[r].deploymentId))
             => /\ ~deployment[tasks[r].deploymentId].completedAt
                /\ ~deployment[tasks[r].deploymentId].duration
                /\ deployment'[tasks[r].deploymentId].completedAt
                /\ deployment'[tasks[r].deploymentId].duration ]_vars

\* C15: every start signal honoured for a PENDING deployment leads to that
\* deployment being persisted as COMPLETED or FAILED, and a deployment that
\* is RUNNING does not stay so forever.
C15_StartedEventuallyTerminal ==
  /\ \A r \in 1..MaxStarts :
       (r \in 1..Len(tasks) /\ tasks[r].pc = "setRunning" /\ tasks[r].status = "PENDING")
         ~> /\ r \in 1..Len(tasks)
            /\ tasks[r].deploymentId \in DOMAIN deployment
            /\ deployment[tasks[r].deploymentId].status \in {"COMPLETED", "FAILED"}
  /\ \A d \in DeploymentIds :
       (d \in DOMAIN deployment /\ deployment[d].status = "RUNNING")
         ~> (d \in DOMAIN deployment /\ deployment[d].status \in {"COMPLETED", "FAILED"})

\* a run begun on a PENDING deployment has returned and the deployment is
\* persisted as terminal
C15_Witness ==
  \E r \in 1..Len(tasks) :
    /\ tasks[r].status = "PENDING"
    /\ tasks[r].pc \in {"done", "return"}
    /\ Len(tasks[r].steps) = MaxPlanLen
    /\ deployment[tasks[r].deploymentId].status \in {"COMPLETED", "FAILED"}

\* C16: when a run begun on a PENDING deployment draws no failure, then at
\* the moment it persists the end of the run the deployment is COMPLETED and
\* every step of the deployment is COMPLETED.
\* Stated for deployments every run of which was handed the full plan.
C16_NoFailureAllCompleted ==
  [][ \A r \in 1..Len(tasks) :
        (SetCompleted(r) /\ tasks[r].status = "PENDING" /\ tasks[r].failAtStep = -1
           /\ tasks[r].deploymentId \in DOMAIN deployment
           /\ onlyFullRuns(tasks[r].deploymentId))
          => /\ deployment'[tasks[r].deploymentId].status = "COMPLETED"
             /\ \A k \in DOMAIN deploymentStep' :
                  k[1] = tasks[r].deploymentId
                    => deploymentStep'[k].status = "COMPLETED" ]_vars

\* C17: a create answered with 201 returns the deployment with status
\* PENDING and one step per plan entry, every step PENDING, with the order
\* indices 0..N-1 in plan order.
C17_CreateReturnsPendingPlan ==
  \A c \in 1..Len(creating) :
    creating[c].res.status = 201
      => /\ creating[c].res.deployment = "PENDING"
         /\ Len(creating[c].res.steps) = Len(creating[c].steps)
         /\ \A k \in 1..Len(creating[c].res.steps) :
              /\ creating[c].res.steps[k].order = k - 1
              /\ creating[c].res.steps[k].status = "PENDING"

\* C18: every run begins with all the steps of the plan of its deployment in
\* the store: no start signal is honoured while the create request of the
\* deployment is still creating its steps.
C18_StepsExistBeforeRun ==
  \A d \in DeploymentIds : onlyFullRuns(d)

\* the names of the entries of a plan, in order
names(plan) == [k \in 1..Len(plan) |-> plan[k].name]

C20_PlanStepNames ==
  \A i \in 1..Len(planned) :
    names(planned[i].plan) =
      IF includes(planned[i].modpackUrl, "tekkit")
           \/ includes(planned[i].modpackUrl, "industrialcraft")
      THEN << "Validate URL", "Download Modpack", "Extract Files",
              "Install Forge/Fabric", "Install Tech Mods", "Configure Server",
              "Allocate Resources", "Start Server" >>
      ELSE << "Validate URL", "Download Modpack", "Extract Files",
              "Install Forge/Fabric", "Configure Server", "Allocate Resources",
              "Start Server" >>

\* the builder was called for small.zip (7 steps) and for a descriptor with
\* both keywords (8 steps)
C20_Witness ==
  /\ Len(planned) = 2
  /\ planned[1].modpackUrl = "https://example.com/packs/small.zip"
  /\ Len(planned[1].plan) = 7
  /\ planned[2].modpackUrl = "https://example.com/packs/tekkit-industrialcraft.zip"
  /\ Len(planned[2].plan) = 8

\* C21: a create request whose descriptor is missing or empty is answered
\* with 400 and creates no deployment and no step, then or later.
C21_EmptyDescriptorRejected ==
  [][ /\ \A u \in Users, url \in {"undefined", ""} :
           CreateDeployment(u, url)
             => /\ creating'[Len(creating')].res.status = 400
                /\ creating'[Len(creating')].pc = "done"
                /\ UNCHANGED << deployment, deploymentStep, nextId >>
      /\ \A c \in 1..Len(creating) :
           creating[c].res.status = 400 => creating'[c] = creating[c] ]_vars

\* a create request was answered with 400 and the store holds no record
C21_Witness ==
  /\ \E c \in 1..Len(creating) : creating[c].res.status = 400
  /\ deployment = << >>
  /\ deploymentStep = << >>
  /\ Len(tasks) = MaxStarts

\* C22: after a cancellation signal for a RUNNING deployment no run of it
\* sets a further step RUNNING or persists it as COMPLETED: the deployment
\* is persisted and broadcast as CANCELLED, with no error summary.
\* Stated for deployments every run of which was handed the full plan.
C22_CancelStopsRun ==
  [][ \A r \in 1..Len(tasks) :
        (tasks[r].deploymentId \in cancelSignals
           /\ onlyFullRuns(tasks[r].deploymentId))
          => /\ ~StepRunning(r)
             /\ ~SetCompleted(r)
             /\ (EmitCompleted(r) \/ EmitFailed(r))
                  => /\ latest'[tasks[r].deploymentId]["deployment-complete"].status
                          = "CANCELLED"
                     /\ deployment'[tasks[r].deploymentId].status = "CANCELLED"
                     /\ deployment'[tasks[r].deploymentId].errorMsg = "null" ]_vars

\* C23: whenever a deployment's persisted status is FAILED, its error
\* summary is present and names a step of the deployment whose persisted
\* status is FAILED.
\* Stated for deployments every run of which was handed the full plan.
C23_FailedNamesFailedStep ==
  \A d \in DOMAIN deployment :
    (deployment[d].status = "FAILED" /\ onlyFullRuns(d))
      => /\ deployment[d].errorMsg # "null"
         /\ \E k \in DOMAIN deploymentStep :
              /\ k[1] = d
              /\ deploymentStep[k].status = "FAILED"
              /\ deploymentStep[k].name = deployment[d].errorMsg

\* C24: a deployment whose persisted status is not FAILED has no error
\* summary.
\* Stated for deployments every run of which was handed the full plan.
C24_NoErrorUnlessFailed ==
  \A d \in DOMAIN deployment :
    (deployment[d].status # "FAILED" /\ onlyFullRuns(d))
      => deployment[d].errorMsg = "null"

\* the records, steps and events of deployment d
recordsOf(d) ==
  << IF d \in DOMAIN deployment THEN deployment[d] ELSE "none",
     [k \in {k \in DOMAIN deploymentStep : k[1] = d} |-> deploymentStep[k]],
     emitted[d], latest[d] >>

\* deployment d has received one start signal, of its owner
sole(d) ==
  /\ Cardinality(startsOf(d)) = 1
  /\ \A r \in startsOf(d) : tasks[r].pc # "rejected"

\* the state a run of task t that has returned leaves when it runs alone
aloneOutcome(t) ==
  LET d == t.deploymentId
      n == Len(t.steps)
  IN  /\ t.pc = "done"
           => /\ deployment[d].status = "COMPLETED"
              /\ \A k \in 0..(n - 1) : deploymentStep[<<d, k>>].status = "COMPLETED"
              /\ emitted[d] = [e \in EventNames |->
                                 IF e = "step-update" THEN 2 * n ELSE 1]
              /\ latest[d]["deployment-complete"].status = "COMPLETED"
      /\ t.pc = "return"
           => /\ deployment[d].status = "FAILED"
              /\ \A k \in 0..(n - 1) :
                   deploymentStep[<<d, k>>].status =
                     IF k < t.i THEN "COMPLETED"
                     ELSE IF k = t.i THEN "FAILED" ELSE "PENDING"
              /\ emitted[d] = [e \in EventNames |->
                                 IF e = "step-update" THEN 2 * (t.i + 1) ELSE 1]
              /\ latest[d]["deployment-complete"].status = "FAILED"

\* C25: runs of distinct deployments interleave freely: a step of a run of
\* deployment D leaves the record, the steps and the events of every other
\* deployment unchanged, and a deployment started once ends in the state and
\* with the order of step-update events it has when it runs alone, whatever
\* the runs of other deployments do meanwhile.
C25_RunsOfDistinctDeploymentsIndependent ==
  /\ [](\A r \in 1..Len(tasks) :
          sole(tasks[r].deploymentId) => aloneOutcome(tasks[r]))
  /\ [][ /\ \A r \in 1..Len(tasks) :
              tasks'[r] # tasks[r]
                => \A d \in RunIds \ {tasks[r].deploymentId} :
                     recordsOf(d)' = recordsOf(d)
         /\ \A d \in RunIds :
              (sole(d) /\ emitted'[d]["step-update"] # emitted[d]["step-update"])
                => Follows(latest[d]["step-update"], latest'[d]["step-update"]) ]_vars

\* two deployments of one user were each started once, their runs
\* overlapped, and both have returned, one COMPLETED and one FAILED
C25_Witness ==
  /\ Len(tasks) = 2
  /\ tasks[1].deploymentId # tasks[2].deploymentId
  /\ tasks[1].userId = tasks[2].userId
  /\ tasks[1].pc = "done"
  /\ tasks[2].pc = "return"
  /\ deployment[tasks[1].deploymentId].status = "COMPLETED"
  /\ deployment[tasks[2].deploymentId].status = "FAILED"

(* ------------------ registration, login, administration ---------------- *)
\* how many register, login, approve and reject requests the model admits
MaxAuthRequests == 3

\* req.body.username and req.body.password ("" is a body without the field)
Usernames == {"", "alice", "bob"}
Passwords == {"", "secret", "wrong"}

UserStatuses == {"pending", "approved", "rejected"}

\* bcrypt.hash(password, 12) and bcrypt.compare(password, hash)
bcryptHash(password) == << "$2a$12$", password >>
bcryptCompare(password, hash) == hash = bcryptHash(password)

\* jwt.sign({userId, username, role}, JWT_SECRET)
sign(u) == [userId |-> u.id, username |-> u.username, role |-> u.role]

\* prisma.user.findUnique({where: {username}})
findUniqueUsername(username) ==
  {i \in 1..Len(user) : user[i].username = username}

\* the record a request leaves when the handler has answered
answered(kind, body, res) ==
  [kind |-> kind, pc |-> "done", body |-> body, local |-> << >>, res |-> res]

\* the record of a handler waiting at an await
awaiting(kind, pc, body, local) ==
  [kind |-> kind, pc |-> pc, body |-> body, local |-> local,
   res |-> [status |-> 0]]

\* the user tables a first registration, a second one and an approve or a
\* reject leave behind, with the token the first registration handed out
SeededUsers ==
  LET first == [id |-> 1, username |-> "alice",
                password |-> bcryptHash("secret"),
                role |-> "admin", status |-> "approved"]
      second(st) == [id |-> 2, username |-> "bob",
                     password |-> bcryptHash("secret"),
                     role |-> "user", status |-> st]
  IN  {<< >>, << first >>} \cup {<< first, second(st) >> : st \in UserStatuses}

InitAuth ==
  /\ deployment = << >>
  /\ deploymentStep = << >>
  /\ nextId = 1
  /\ creating = << >>
  /\ deleting = << >>
  /\ tasks = << >>
  /\ emitted = [d \in DeploymentIds \cup RunIds |-> [e \in EventNames |-> 0]]
  /\ latest = [d \in DeploymentIds \cup RunIds |-> [e \in EventNames |-> NoEvent]]
  /\ socketErrors = [s \in Sockets |-> << >>]
  /\ reading = << >>
  /\ planned = << >>
  /\ cancelSignals = {}
  /\ user \in SeededUsers
  /\ tokens = IF user = << >> THEN {} ELSE {sign(user[1])}
  /\ authRequests = << >>
  /\ clock = NoClock
  /\ client = NoClient

\* POST /register up to the first await: validation and findUnique
Register(username, password) ==
  LET body == [username |-> username, password |-> password] IN
  /\ Len(authRequests) < MaxAuthRequests
  /\ authRequests' = Append(authRequests,
       IF username = "" \/ password = ""
       THEN answered("register", body, [status |-> 400])
       ELSE IF findUniqueUsername(username) # {}
       THEN answered("register", body, [status |-> 409])
       ELSE awaiting("register", "count", body, << >>))
  /\ UNCHANGED << user, tokens >>
  /\ UNCHANGED << deployVars, reading, planned, cancelSignals, observerVars >>

\* POST /register: prisma.user.count() and isFirstUser
RegisterCount(q) ==
  /\ q \in 1..Len(authRequests)
  /\ authRequests[q].kind = "register"
  /\ authRequests[q].pc = "count"
  /\ authRequests' = [authRequests EXCEPT
       ![q].pc = "create",
       ![q].local = [isFirstUser |-> Len(user) = 0]]
  /\ UNCHANGED << user, tokens >>
  /\ UNCHANGED << deployVars, reading, planned, cancelSignals, observerVars >>

\* POST /register: bcrypt.hash, prisma.user.create (username is @unique: a
\* second row of the same name throws, which the catch answers with 500),
\* and the token of the first user
RegisterCreate(q) ==
  /\ q \in 1..Len(authRequests)
  /\ authRequests[q].kind = "register"
  /\ authRequests[q].pc = "create"
  /\ LET body == authRequests[q].body
         isFirstUser == authRequests[q].local.isFirstUser
         created == [id |-> Len(user) + 1,
                     username |-> body.username,
                     password |-> bcryptHash(body.password),
                     role |-> IF isFirstUser THEN "admin" ELSE "user",
                     status |-> IF isFirstUser THEN "approved" ELSE "pending"]
     IN  IF findUniqueUsername(body.username) # {}
         THEN /\ authRequests' = [authRequests EXCEPT
                   ![q].pc = "done", ![q].res = [status |-> 500]]
              /\ UNCHANGED << user, tokens >>
         ELSE /\ user' = Append(user, created)
              /\ IF ~isFirstUser
                 THEN /\ authRequests' = [authRequests EXCEPT
                           ![q].pc = "done",
                           ![q].res = [status |-> 201, requiresApproval |-> TRUE]]
                      /\ UNCHANGED tokens
                 ELSE /\ tokens' = tokens \cup {sign(created)}
                      /\ authRequests' = [authRequests EXCEPT
                           ![q].pc = "done",
                           ![q].res = [status |-> 201, token |-> sign(created)]]
  /\ UNCHANGED << deployVars, reading, planned, cancelSignals, observerVars >>

\* POST /login up to the await of bcrypt.compare: validation, findUnique and
\* the status check on the record read
Login(username, password) ==
  LET body == [username |-> username, password |-> password]
      found == findUniqueUsername(username)
  IN
  /\ Len(authRequests) < MaxAuthRequests
  /\ authRequests' = Append(authRequests,
       IF username = "" \/ password = ""
       THEN answered("login", body, [status |-> 400])
       ELSE IF found = {}
       THEN answered("login", body, [status |-> 401])
       ELSE LET u == user[CHOOSE i \in found : TRUE] IN
            IF u.status # "approved" /\ u.status \in {"pending", "rejected"}
            THEN answered("login", body, [status |-> 403])
            ELSE awaiting("login", "compare", body, [user |-> u]))
  /\ UNCHANGED << user, tokens >>
  /\ UNCHANGED << deployVars, reading, planned, cancelSignals, observerVars >>

\* POST /login after bcrypt.compare: the token is signed from the record
\* read before the await
LoginCompare(q) ==
  /\ q \in 1..Len(authRequests)
  /\ authRequests[q].kind = "login"
  /\ authRequests[q].pc = "compare"
  /\ LET u == authRequests[q].local.user IN
     IF ~bcryptCompare(authRequests[q].body.password, u.password)
     THEN /\ authRequests' = [authRequests EXCEPT
               ![q].pc = "done", ![q].res = [status |-> 401]]
          /\ UNCHANGED tokens
     ELSE /\ tokens' = tokens \cup {sign(u)}
          /\ authRequests' = [authRequests EXCEPT
               ![q].pc = "done",
               ![q].res = [status |-> 200, token |-> sign(u)]]
  /\ UNCHANGED user
  /\ UNCHANGED << deployVars, reading, planned, cancelSignals, observerVars >>

\* const requireAdmin: the role is the one in the token of the caller
requireAdmin(token) == token.role = "admin"

\* the ids a request can name: the rows of the model, and ids of no row
MaxUserId == 3
UserIds == 1..MaxUserId

\* POST /users/:id/approve up to the update: requireAdmin, findUnique and the
\* checks on the record read
Approve(id) ==
  /\ Len(authRequests) < MaxAuthRequests
  /\ \E token \in tokens :
     LET body == [token |-> token, id |-> id] IN
     authRequests' = Append(authRequests,
       IF ~requireAdmin(token)
       THEN answered("approve", body, [status |-> 403])
       ELSE IF id \notin 1..Len(user)
       THEN answered("approve", body, [status |-> 404])
       ELSE IF user[id].status = "approved"
       THEN answered("approve", body, [status |-> 400])
       ELSE awaiting("approve", "update", body, << >>))
  /\ UNCHANGED << user, tokens >>
  /\ UNCHANGED << deployVars, reading, planned, cancelSignals, observerVars >>

\* POST /users/:id/approve: prisma.user.update({data: {status: 'approved'}})
ApproveUpdate(q) ==
  /\ q \in 1..Len(authRequests)
  /\ authRequests[q].kind = "approve"
  /\ authRequests[q].pc = "update"
  /\ user' = [user EXCEPT ![authRequests[q].body.id].status = "approved"]
  /\ authRequests' = [authRequests EXCEPT
       ![q].pc = "done", ![q].res = [status |-> 200]]
  /\ UNCHANGED tokens
  /\ UNCHANGED << deployVars, reading, planned, cancelSignals, observerVars >>

\* POST /users/:id/reject up to the update: requireAdmin, findUnique and the
\* checks on the record read
Reject(id) ==
  /\ Len(authRequests) < MaxAuthRequests
  /\ \E token \in tokens :
     LET body == [token |-> token, id |-> id] IN
     authRequests' = Append(authRequests,
       IF ~requireAdmin(token)
       THEN answered("reject", body, [status |-> 403])
       ELSE IF id \notin 1..Len(user)
       THEN answered("reject", body, [status |-> 404])
       ELSE IF user[id].role = "admin"
       THEN answered("reject", body, [status |-> 400])
       ELSE IF user[id].status = "rejected"
       THEN answered("reject", body, [status |-> 400])
       ELSE awaiting("reject", "update", body, << >>))
  /\ UNCHANGED << user, tokens >>
  /\ UNCHANGED << deployVars, reading, planned, cancelSignals, observerVars >>

\* POST /users/:id/reject: prisma.user.update({data: {status: 'rejected'}})
RejectUpdate(q) ==
  /\ q \in 1..Len(authRequests)
  /\ authRequests[q].kind = "reject"
  /\ authRequests[q].pc = "update"
  /\ user' = [user EXCEPT ![authRequests[q].body.id].status = "rejected"]
  /\ authRequests' = [authRequests EXCEPT
       ![q].pc = "done", ![q].res = [status |-> 200]]
  /\ UNCHANGED tokens
  /\ UNCHANGED << deployVars, reading, planned, cancelSignals, observerVars >>

NextAuth ==
  \/ \E username \in Usernames, password \in Passwords :
       Register(username, password)
  \/ \E username \in Usernames, password \in Passwords :
       Login(username, password)
  \/ \E id \in UserIds : Approve(id)
  \/ \E id \in UserIds : Reject(id)
  \/ \E q \in 1..MaxAuthRequests :
       \/ RegisterCount(q)
       \/ RegisterCreate(q)
       \/ LoginCompare(q)
       \/ ApproveUpdate(q)
       \/ RejectUpdate(q)

SpecAuth == InitAuth /\ [][NextAuth]_vars

(* ------------------------ claims on user accounts ---------------------- *)
\* C26: the first user ever registered is created with role admin and status
\* approved, every other registration creates a user with role user and
\* status pending, so that whatever the interleaving of register requests at
\* most one registration yields an admin.
C26_OnlyFirstRegistrationIsAdmin ==
  [][\A i \in (1..Len(user')) \ (1..Len(user)) :
       IF i = 1
       THEN user'[i].role = "admin" /\ user'[i].status = "approved"
       ELSE user'[i].role = "user" /\ user'[i].status = "pending"]_vars

\* C27: a token is handed out only for a user whose status is approved at
\* the time it is handed out; a pending or rejected user never obtains one.
C27_TokenOnlyForApproved ==
  [][\A t \in tokens' \ tokens :
       /\ t.userId \in 1..Len(user')
       /\ user'[t.userId].status = "approved"]_vars

\* C28: approve and reject change the status of a pending user only: the
\* status of a user who is already approved or rejected never changes.
C28_StatusChangesOnlyFromPending ==
  [][\A i \in 1..Len(user) :
       user'[i].status # user[i].status => user[i].status = "pending"]_vars

(* ------------------------ claims on the failing step ------------------- *)
\* the positions of a run after it marked a step FAILED
FailedPcs == {"setFailed", "emitFailed", "return"}

\* the positions of a run before it drew failAtStep
UndecidedPcs == {"rejected", "setRunning", "emitStatus"}

\* C29: the failing step of a run is decided once, before the first step is
\* set RUNNING, and never re-evaluated: failAtStep does not change once the
\* run is past the draw, no step is set RUNNING before the draw, the run marks
\* a step FAILED only at index failAtStep and leaves the loop when it did (so
\* at most one step per run), and the run ends FAILED exactly when failAtStep
\* names one of its steps and COMPLETED otherwise.
C29_FailingStepDecidedOnce ==
  /\ [](\A r \in 1..Len(tasks) :
          /\ tasks[r].pc \in UndecidedPcs => tasks[r].i = 0
          /\ tasks[r].pc \in FailedPcs => tasks[r].i = tasks[r].failAtStep
          /\ tasks[r].pc = "return" =>
               tasks[r].failAtStep \in 0..(Len(tasks[r].steps) - 1)
          /\ tasks[r].pc \in {"setCompleted", "emitCompleted", "done"} =>
               tasks[r].failAtStep \notin 0..(Len(tasks[r].steps) - 1))
  /\ [][\A r \in 1..Len(tasks) :
          /\ tasks[r].pc \notin UndecidedPcs =>
               tasks'[r].failAtStep = tasks[r].failAtStep
          /\ tasks[r].pc \in UndecidedPcs =>
               \A k \in 1..Len(tasks[r].steps) :
                 LET key == <<tasks[r].deploymentId, tasks[r].steps[k].order>> IN
                 (tasks'[r] # tasks[r] /\ key \in DOMAIN deploymentStep) =>
                   deploymentStep'[key] = deploymentStep[key]
          /\ tasks[r].pc \in FailedPcs =>
               tasks'[r].pc \in FailedPcs \cup {"catch"}
          /\ (tasks[r].pc = "work" /\ tasks'[r].pc = "setFailed") =>
               /\ tasks[r].i = tasks[r].failAtStep
               /\ deploymentStep'[stepId(tasks[r])].status = "FAILED"
               /\ \A key \in DOMAIN deploymentStep \ {stepId(tasks[r])} :
                    deploymentStep'[key] = deploymentStep[key]]_vars

\* a run that completed its first step and failed at its second has ended
C29_Witness ==
  \E r \in 1..Len(tasks) :
    /\ tasks[r].pc = "return"
    /\ tasks[r].failAtStep = 1
    /\ Len(tasks[r].steps) = MaxPlanLen
    /\ \E q \in 1..Len(tasks) : tasks[q].pc = "done"

\* the step-update(FAILED) event of the step the run of t failed at
failedStepUpdate(t) == Event(t, t.steps[t.i + 1].order, "FAILED")

\* C30: on a failing step the effects come in the order step persisted
\* FAILED, step-update(FAILED) broadcast, deployment persisted FAILED with
\* errorMsg, completedAt and duration, deployment-complete broadcast: when
\* the run persists the deployment as FAILED the step is persisted FAILED and
\* its step-update(FAILED) is already broadcast, and when deployment-complete
\* is broadcast the deployment is persisted FAILED.
C30_FailureOrder ==
  [][\A r \in 1..Len(tasks) :
       /\ (tasks[r].pc = "setFailed" /\ tasks'[r].pc = "emitFailed") =>
            /\ deploymentStep[stepId(tasks[r])].status = "FAILED"
            /\ latest[tasks[r].deploymentId]["step-update"] = failedStepUpdate(tasks[r])
            /\ deployment'[tasks[r].deploymentId].status = "FAILED"
            /\ deployment'[tasks[r].deploymentId].errorMsg # "null"
            /\ deployment'[tasks[r].deploymentId].completedAt = TRUE
            /\ deployment'[tasks[r].deploymentId].duration = TRUE
       /\ (tasks[r].pc = "emitFailed" /\ tasks'[r].pc = "return") =>
            /\ latest'[tasks[r].deploymentId]["deployment-complete"] =
                 Event(tasks[r], -1, "FAILED")
            /\ latest'[tasks[r].deploymentId]["step-update"] = failedStepUpdate(tasks[r])]_vars

(* --------------------- claims on persist and broadcast ----------------- *)
\* the status the store holds for what event ev of deployment d is about:
\* the step for a step-update, the deployment otherwise ("null": no record)
held(d, e, ev) ==
  IF e = "step-update"
  THEN IF <<d, ev.order>> \in DOMAIN deploymentStep
       THEN deploymentStep[<<d, ev.order>>].status ELSE "null"
  ELSE IF d \in DOMAIN deployment THEN deployment[d].status ELSE "null"

\* C31: every transition is persisted before it is broadcast: whenever an
\* event carrying status S for a deployment or a step is emitted, the store
\* holds status S for that deployment or step.
C31_PersistedBeforeBroadcast ==
  [][\A d \in DeploymentIds, e \in EventNames :
       (onlyFullRuns(d) /\ emitted'[d][e] # emitted[d][e]) =>
         held(d, e, latest'[d][e]) = latest'[d][e].status]_vars

\* the steps of deployment d that are on record with a status other than PENDING
touched(d) ==
  {k \in DOMAIN deploymentStep : k[1] = d /\ deploymentStep[k].status # "PENDING"}

\* C32: a run first persists the deployment as RUNNING and broadcasts exactly
\* one deployment-status(RUNNING) event, before any step of that deployment
\* is set to RUNNING and before any step-update event, and the
\* deployment-complete event comes after the last step-update event: the
\* deployment-status event of a run (EmitStatus emits one per run) finds
\* RUNNING on record, no step touched and no step-update emitted, a step is
\* set RUNNING and step-updates are emitted only after it, and no step-update
\* follows deployment-complete.
C32_StatusEventFirstCompleteLast ==
  [][\A d \in DeploymentIds :
       onlyFullRuns(d) =>
         /\ emitted'[d]["deployment-status"] # emitted[d]["deployment-status"] =>
              /\ emitted[d]["step-update"] = 0
              /\ held(d, "deployment-status", latest'[d]["deployment-status"]) = "RUNNING"
              /\ touched(d) = {}
         /\ touched(d)' # touched(d) => emitted[d]["deployment-status"] >= 1
         /\ emitted'[d]["step-update"] # emitted[d]["step-update"] =>
              /\ emitted[d]["deployment-status"] >= 1
              /\ emitted[d]["deployment-complete"] = 0]_vars

\* the run tasks of deployment d that are past the update to RUNNING
pastSetRunning(d) ==
  {r \in 1..Len(tasks) :
     tasks[r].deploymentId = d /\ tasks[r].pc \notin {"rejected", "setRunning"}}

\* C33: every deployment that reaches COMPLETED or FAILED was persisted as
\* RUNNING in an earlier state, whatever the length of its plan: a PENDING
\* deployment changes status to RUNNING only, a terminal status is written
\* over RUNNING or over a terminal status, and a terminal deployment has a run
\* that is past its update to RUNNING.
C33_TerminalOnlyAfterRunning ==
  /\ [](\A d \in DOMAIN deployment :
          deployment[d].status \in {"COMPLETED", "FAILED"} => pastSetRunning(d) # {})
  /\ [][\A d \in DOMAIN deployment \cap DOMAIN deployment' :
          deployment'[d].status # deployment[d].status =>
            /\ deployment[d].status = "PENDING" => deployment'[d].status = "RUNNING"
            /\ deployment'[d].status \in {"COMPLETED", "FAILED"} =>
                 deployment[d].status \in {"RUNNING", "COMPLETED", "FAILED"}]_vars

\* runs of a single-step list and of an empty list have reached a terminal
\* status, one COMPLETED and one FAILED
C33_Witness ==
  \E r, q \in 1..Len(tasks) :
    /\ Len(tasks[r].steps) = 1
    /\ tasks[r].pc = "return"
    /\ Len(tasks[q].steps) <= 1
    /\ tasks[q].pc = "done"
    /\ deployment[tasks[q].deploymentId].status = "COMPLETED"

(* ------------------------- claims on error handling -------------------- *)
\* C34: a failure of a step's unit of work is never reported as an exception
\* out of simulateDeployment nor as a deployment-error event: once the step is
\* marked FAILED the run persists the step and then the deployment as FAILED,
\* emits deployment-complete with status FAILED and returns, it never enters
\* the handler's catch and no deployment-error is sent on the way.
C34_StepFailureAbsorbed ==
  [][\A r \in 1..Len(tasks) :
       LET t == tasks[r]
           d == t.deploymentId
       IN
       /\ (t.pc = "work" /\ tasks'[r].pc = "setFailed") =>
            /\ deploymentStep'[stepId(t)].status = "FAILED"
            /\ socketErrors' = socketErrors
       /\ (t.pc = "setFailed" /\ tasks'[r] # t) =>
            /\ tasks'[r].pc = "emitFailed"
            /\ deployment'[d].status = "FAILED"
            /\ socketErrors' = socketErrors
       /\ (t.pc = "emitFailed" /\ tasks'[r] # t) =>
            /\ tasks'[r].pc = "return"
            /\ emitted'[d]["deployment-complete"] = emitted[d]["deployment-complete"] + 1
            /\ latest'[d]["deployment-complete"] = Event(t, -1, "FAILED")
            /\ socketErrors' = socketErrors
       /\ t.pc = "return" => tasks'[r] = t]_vars

\* a run has returned from the failure branch: its step and its deployment
\* are on record as FAILED, deployment-complete(FAILED) is the last
\* completion event and its socket got no deployment-error
C34_Witness ==
  \E r \in 1..Len(tasks) :
    /\ tasks[r].pc = "return"
    /\ deploymentStep[stepId(tasks[r])].status = "FAILED"
    /\ deployment[tasks[r].deploymentId].status = "FAILED"
    /\ latest[tasks[r].deploymentId]["deployment-complete"] = Event(tasks[r], -1, "FAILED")
    /\ socketErrors[tasks[r].socket] = << >>
    /\ deleting # << >>

\* the positions of a run at which it awaits a store update
StorePcs == {"setRunning", "stepRunning", "work", "setFailed", "setCompleted"}

\* an awaited prisma update of the run rejects (the store is unreachable,
\* locked or times out): nothing is written and the exception propagates to
\* the try/catch of the 'start-deployment' handler
StoreThrows(r) ==
  /\ r \in 1..Len(tasks)
  /\ tasks[r].pc \in StorePcs
  /\ tasks' = [tasks EXCEPT ![r].pc = "catch"]
  /\ UNCHANGED << deployment, deploymentStep, nextId, creating, deleting,
                  emitted, latest, socketErrors >>
  /\ UNCHANGED other

\* creates, starts and runs whose store updates can reject
NextThrow ==
  \/ NextLive
  \/ \E r \in 1..MaxStarts : StoreThrows(r) \/ Catch(r)

SpecThrow == Init /\ [][NextThrow]_vars

\* C35: when a store operation throws in the middle of a run, the handler
\* emits one deployment-error to the requesting socket, that run persists and
\* broadcasts nothing further, and the deployment is not left RUNNING with no
\* run task driving it and no terminal event.
C35_StoreErrorLeavesNoPartialState ==
  /\ [](\A d \in DOMAIN deployment :
          (onlyFullRuns(d) /\ deployment[d].status = "RUNNING") =>
            \/ driving(d) # {}
            \/ \E r \in 1..Len(tasks) :
                 tasks[r].deploymentId = d /\ tasks[r].pc = "catch"
            \/ emitted[d]["deployment-complete"] > 0)
  /\ [][\A r \in 1..Len(tasks) :
          /\ (tasks[r].pc = "catch" /\ tasks'[r] # tasks[r]) =>
               /\ tasks'[r].pc = "caught"
               /\ socketErrors' = [socketErrors EXCEPT ![tasks[r].socket] =
                                     Append(@, "Failed to start deployment")]
               /\ UNCHANGED << deployment, deploymentStep, emitted, latest >>
          /\ tasks[r].pc = "caught" => tasks'[r] = tasks[r]]_vars

(* --------------------- the durations of a timed run -------------------- *)
\* Date.now() advances by TickMs between statements, up to MaxClockMs
TickMs == 500
MaxClockMs == 4000

\* Math.floor((Date.now() - startTime) / 1000)
elapsedSeconds == (clock.now - clock.startTime) \div 1000

timedFrame ==
  UNCHANGED << deployVars, reading, planned, cancelSignals, authVars, client >>

\* the wall clock moves on while the run is between two statements
Tick ==
  /\ clock.pc # "done"
  /\ clock.now + TickMs <= MaxClockMs
  /\ clock' = [clock EXCEPT !.now = @ + TickMs]
  /\ timedFrame

\* const startTime = Date.now()
TimedStart ==
  /\ clock.pc = "start"
  /\ clock' = [clock EXCEPT !.startTime = clock.now, !.pc = "loop"]
  /\ timedFrame

\* the loop reaches i === failAtStep and has updated the step
TimedFail ==
  /\ clock.pc = "loop"
  /\ clock' = [clock EXCEPT !.branch = "FAILED", !.pc = "updateFailed"]
  /\ timedFrame

\* deployment.update({status: 'FAILED', duration: Math.floor(...)})
TimedUpdateFailed ==
  /\ clock.pc = "updateFailed"
  /\ clock' = [clock EXCEPT !.persisted = elapsedSeconds, !.pc = "emitFailed"]
  /\ timedFrame

\* emit deployment-complete {status: 'FAILED', duration: Math.floor(...)}
TimedEmitFailed ==
  /\ clock.pc = "emitFailed"
  /\ clock' = [clock EXCEPT !.sent = elapsedSeconds, !.pc = "done"]
  /\ timedFrame

\* the loop ends: const totalDuration = Math.floor(...)
TimedComplete ==
  /\ clock.pc = "loop"
  /\ clock' = [clock EXCEPT !.branch = "COMPLETED",
                 !.totalDuration = elapsedSeconds, !.pc = "updateCompleted"]
  /\ timedFrame

\* deployment.update({status: 'COMPLETED', duration: totalDuration})
TimedUpdateCompleted ==
  /\ clock.pc = "updateCompleted"
  /\ clock' = [clock EXCEPT !.persisted = clock.totalDuration, !.pc = "emitCompleted"]
  /\ timedFrame

\* emit deployment-complete {status: 'COMPLETED', duration: totalDuration}
TimedEmitCompleted ==
  /\ clock.pc = "emitCompleted"
  /\ clock' = [clock EXCEPT !.sent = clock.totalDuration, !.pc = "done"]
  /\ timedFrame

InitClock ==
  /\ deployment = << >>
  /\ deploymentStep = << >>
  /\ nextId = 1
  /\ creating = << >>
  /\ deleting = << >>
  /\ tasks = << >>
  /\ emitted = [d \in DeploymentIds \cup RunIds |-> [e \in EventNames |-> 0]]
  /\ latest = [d \in DeploymentIds \cup RunIds |-> [e \in EventNames |-> NoEvent]]
  /\ socketErrors = [s \in Sockets |-> << >>]
  /\ reading = << >>
  /\ planned = << >>
  /\ cancelSignals = {}
  /\ user = << >>
  /\ tokens = {}
  /\ authRequests = << >>
  /\ clock = [NoClock EXCEPT !.pc = "start"]
  /\ client = NoClient

NextClock ==
  \/ Tick
  \/ TimedStart
  \/ TimedFail
  \/ TimedUpdateFailed
  \/ TimedEmitFailed
  \/ TimedComplete
  \/ TimedUpdateCompleted
  \/ TimedEmitCompleted

SpecClock == InitClock /\ [][NextClock]_vars

\* C36: on every terminal transition, COMPLETED and FAILED alike, the
\* duration carried by the deployment-complete event equals the duration
\* persisted on the Deployment record, however the clock advances between
\* statements.
C36_EventDurationIsPersistedDuration ==
  clock.pc = "done" => clock.sent = clock.persisted

(* ------------------------- promotion to admin -------------------------- *)
adminFrame ==
  UNCHANGED << deployVars, reading, planned, cancelSignals, observerVars >>

\* POST /users/:id/promote up to the update: requireAdmin, findUnique and the
\* checks on the record read
Promote(id) ==
  /\ Len(authRequests) < MaxAuthRequests
  /\ \E token \in tokens :
     LET body == [token |-> token, id |-> id] IN
     authRequests' = Append(authRequests,
       IF ~requireAdmin(token)
       THEN answered("promote", body, [status |-> 403])
       ELSE IF id \notin 1..Len(user)
       THEN answered("promote", body, [status |-> 404])
       ELSE IF user[id].role = "admin"
       THEN answered("promote", body, [status |-> 400])
       ELSE awaiting("promote", "update", body, << >>))
  /\ UNCHANGED << user, tokens >>
  /\ adminFrame

\* POST /users/:id/promote:
\* prisma.user.update({data: {role: 'admin', status: 'approved'}})
PromoteUpdate(q) ==
  /\ q \in 1..Len(authRequests)
  /\ authRequests[q].kind = "promote"
  /\ authRequests[q].pc = "update"
  /\ user' = [user EXCEPT ![authRequests[q].body.id].role = "admin",
                          ![authRequests[q].body.id].status = "approved"]
  /\ authRequests' = [authRequests EXCEPT
       ![q].pc = "done", ![q].res = [status |-> 200]]
  /\ UNCHANGED tokens
  /\ adminFrame

\* admin-cli make-admin <username> up to the update: findUnique and the
\* checks on the record read (the command needs no token)
MakeAdmin(username) ==
  LET body == [username |-> username]
      found == findUniqueUsername(username)
  IN
  /\ Len(authRequests) < MaxAuthRequests
  /\ authRequests' = Append(authRequests,
       IF found = {}
       THEN answered("make-admin", body, [status |-> 404])
       ELSE IF user[CHOOSE i \in found : TRUE].role = "admin"
       THEN answered("make-admin", body, [status |-> 400])
       ELSE awaiting("make-admin", "update", body, << >>))
  /\ UNCHANGED << user, tokens >>
  /\ adminFrame

\* admin-cli make-admin:
\* prisma.user.update({where: {username}, data: {role: 'admin', status: 'approved'}})
MakeAdminUpdate(q) ==
  /\ q \in 1..Len(authRequests)
  /\ authRequests[q].kind = "make-admin"
  /\ authRequests[q].pc = "update"
  /\ LET i == CHOOSE i \in findUniqueUsername(authRequests[q].body.username) : TRUE IN
     user' = [user EXCEPT ![i].role = "admin", ![i].status = "approved"]
  /\ authRequests' = [authRequests EXCEPT
       ![q].pc = "done", ![q].res = [status |-> 200]]
  /\ UNCHANGED tokens
  /\ adminFrame

\* the auth and admin requests together with promotion over HTTP and CLI
NextAdmin ==
  \/ NextAuth
  \/ \E id \in UserIds : Promote(id)
  \/ \E username \in Usernames : MakeAdmin(username)
  \/ \E q \in 1..MaxAuthRequests :
       \/ PromoteUpdate(q)
       \/ MakeAdminUpdate(q)

SpecAdmin == InitAuth /\ [][NextAdmin]_vars

\* C37: in every state of the user store every user whose role is admin has
\* status approved.
C37_AdminIsApproved ==
  \A i \in 1..Len(user) : user[i].role = "admin" => user[i].status = "approved"

(* --------------------------- GET /api/admin/stats ---------------------- *)
\* req.user.role of the caller
Roles == {"admin", "user"}

\* prisma.deployment.count({where: {status}}): equality on the stored string
countStatus(status) ==
  Cardinality({d \in DOMAIN deployment : deployment[d].status = status})

\* GET /stats: requireAdmin, then the counts of Promise.all;
\* activeDeployments is count({where: {status: 'running'}})
GetStats(role) ==
  /\ reading' = Append(reading,
       [userId |-> role, kind |-> "stats", pc |-> "done", where |-> << >>,
        res |-> IF role # "admin"
                THEN [status |-> 403]
                ELSE [status |-> 200,
                      total |-> Cardinality(DOMAIN deployment),
                      active |-> countStatus("running")]])
  /\ UNCHANGED << deployVars, planned, cancelSignals, authVars, observerVars >>

\* stats requests of any caller over a populated store, and deletes
NextStats ==
  \/ /\ Len(reading) < MaxReads
     /\ \E role \in Roles : GetStats(role)
  \/ /\ Len(deleting) < MaxDeletes
     /\ \E u \in Users, d \in ReadIds : DeleteFind(u, d)
  \/ \E k \in 1..MaxDeletes : DeleteExec(k)

SpecStats == InitRead /\ [][NextStats]_vars

(* ----------------------- claims on delete and stats -------------------- *)
\* C38: a delete request by the owner for an existing deployment, in any
\* status and with its steps present, answers success and removes the
\* deployment together with its steps: when the delete of such a request
\* executes on a deployment that is on record, it answers 200, the
\* deployment is gone and no step record refers to a missing deployment.
C38_DeleteRemovesDeploymentAndSteps ==
  [][\A k \in 1..Len(deleting) :
       (/\ deleting[k].pc = "delete"
        /\ deleting'[k].pc = "done"
        /\ deleting[k].id \in DOMAIN deployment) =>
         /\ deleting'[k].res = 200
         /\ deleting[k].id \notin DOMAIN deployment'
         /\ \A key \in DOMAIN deploymentStep' : key[1] \in DOMAIN deployment']_vars

\* C39: the 'active' figure of the admin stats equals the number of
\* deployments whose persisted status is RUNNING, and 'total' the number of
\* all deployments, as the store is when the request is answered.
C39_ActiveCountsRunning ==
  [][(Len(reading') > Len(reading) /\ reading'[Len(reading')].res.status = 200) =>
       /\ reading'[Len(reading')].res.total = Cardinality(DOMAIN deployment)
       /\ reading'[Len(reading')].res.active = countStatus("RUNNING")]_vars

(* ------------------ the deployment store of a browser ------------------ *)
\* an event of deployment d the server emitted and the session has not
\* handled yet
pending(d, e) == emitted[d][e] > client.applied[d][e]

noPending == \A d \in RunIds, e \in EventNames : ~pending(d, e)

clientFrame ==
  UNCHANGED << deployVars, reading, planned, cancelSignals, authVars, clock >>

\* setCurrentDeployment(deployment): the session of the owner opens
\* deployment d, with its steps, before any start signal for it
ClientOpen(d) ==
  /\ client.id = 0
  /\ noPending
  /\ d \in DOMAIN deployment
  /\ \A r \in 1..Len(tasks) : tasks[r].deploymentId # d
  /\ client' = [client EXCEPT
       !.userId = deployment[d].userId,
       !.id = d,
       !.status = deployment[d].status,
       !.steps = [o \in {k[2] : k \in {k \in DOMAIN deploymentStep : k[1] = d}} |->
                    deploymentStep[<<d, o>>].status]]
  /\ clientFrame

\* updateDeployment(id, {status}): currentDeployment changes when its id is id
updateDeployment(c, id, status) ==
  IF c.id = id THEN [c EXCEPT !.status = status] ELSE c

\* updateStep(deploymentId, stepId, {status}): the step of currentDeployment
\* whose id is stepId, when currentDeployment is deploymentId
updateStep(c, deploymentId, order, status) ==
  IF c.id = deploymentId
  THEN [c EXCEPT !.steps = [o \in DOMAIN c.steps |->
                              IF o = order THEN status ELSE c.steps[o]]]
  ELSE c

\* the socket delivers the oldest unhandled event (of the two events of the
\* failure branch step-update comes first) and the handler of
\* 'deployment-status', 'step-update' or 'deployment-complete' runs; a
\* session receives the events of the room of its user only
ClientApply(d, e) ==
  /\ pending(d, e)
  /\ e = "deployment-complete" => ~pending(d, "step-update")
  /\ LET ev == latest[d][e]
         handled == [client EXCEPT !.applied[d][e] = @ + 1]
     IN  client' =
           IF client.id = 0 \/ ev.room # client.userId
           THEN handled
           ELSE IF e = "step-update"
           THEN updateStep(handled, ev.deploymentId, ev.order, ev.status)
           ELSE updateDeployment(handled, ev.deploymentId, ev.status)
  /\ clientFrame

\* two created deployments, their runs, and one connected session that
\* handles every event before the server goes on
NextClient ==
  \/ \E d \in RunIds : ClientOpen(d)
  \/ \E d \in RunIds, e \in EventNames : ClientApply(d, e)
  \/ noPending /\ NextTwo

SpecClient == InitTwo /\ [][NextClient]_vars

\* every run of deployment d has ended and its events are handled
settled(d) ==
  /\ startsOf(d) # {}
  /\ \A r \in startsOf(d) : tasks[r].pc \in {"done", "return"}
  /\ noPending

\* the session's copy of its current deployment agrees with the store
inSync ==
  /\ client.status = deployment[client.id].status
  /\ \A o \in DOMAIN client.steps :
       client.steps[o] = deploymentStep[<<client.id, o>>].status

\* C40: a session that holds deployment D as currentDeployment from before
\* the run and handles the events in emission order has, after the last
\* event, the status of D and of each of D's steps that the store holds, and
\* events about other deployments leave D's entry unchanged.
C40_ClientAgreesWithStore ==
  /\ []((client.id # 0 /\ settled(client.id)) => inSync)
  /\ [][\A d \in RunIds, e \in EventNames :
          (client.applied'[d][e] # client.applied[d][e] /\ d # client.id) =>
            /\ client'.status = client.status
            /\ client'.steps = client.steps]_vars

====
